---- MODULE Spec2Model ----
(***************************************************************************)
(* Model of the subreddit fan-out publisher (src/unnamed/part_000) and of  *)
(* the S3ToEventBridgeToLambda construct                                   *)
(* (src/source/lib/s3-event-notification/s3-eventbridge-lambda.ts).        *)
(*                                                                         *)
(* Text is modelled as a sequence of one-character strings, so that        *)
(* String.prototype.split and JSON.stringify are computed, not assumed.    *)
(***************************************************************************)
EXTENDS Naturals, Sequences, FiniteSets, TLC

(* ------------------------------ bounds --------------------------------- *)

\* longest SUBREDDITS_TO_FOLLOW string enumerated (in characters)
MaxLen == 3
\* largest number of rows a scan response carries
MaxRows == 2

(* ------------------------------ text ----------------------------------- *)

\* the characters the enumerated strings are made of; "," is the delimiter
Chars == {"a", "b", ","}

RECURSIVE StringsUpTo(_)
StringsUpTo(n) ==
    IF n = 0 THEN {<<>>}
    ELSE LET shorter == StringsUpTo(n - 1)
         IN  shorter \cup {Append(s, c) : s \in {t \in shorter : Len(t) = n - 1}, c \in Chars}

\* the static list of the spec's scenario, "a,b,c"
ExampleList == <<"a", ",", "b", ",", "c">>

StaticLists == StringsUpTo(MaxLen) \cup {ExampleList}

\* identifiers a table row can hold
Names == {<<"a">>, <<"b">>, <<"a", "b">>}

(* --------------------------- process.env ------------------------------- *)

\* an environment variable is undefined (set = FALSE) or holds a string
Unset == [set |-> FALSE, val |-> <<>>]
Str(v) == [set |-> TRUE, val |-> v]

BUS1 == <<"b", "u", "s", "1">>
NS1 == <<"n", "s", "1">>
T1 == <<"t", "1">>
TRUE_ == <<"T", "R", "U", "E">>
true_ == <<"t", "r", "u", "e">>
FALSE_ == <<"F", "A", "L", "S", "E">>

Environments ==
    [EVENT_BUS_NAME : {Unset, Str(<<>>), Str(BUS1)},
     SUBREDDIT_PUBLISH_NAMESPACE : {Unset, Str(<<>>), Str(NS1)},
     SOURCE_DDB_TABLE : {Unset, Str(<<>>), Str(T1)},
     READ_SUBREDDITS_FROM_DDB : {Unset, Str(TRUE_), Str(true_), Str(FALSE_)},
     SUBREDDITS_TO_FOLLOW : {Unset} \cup {Str(s) : s \in StaticLists}]

NoEnvironment ==
    [EVENT_BUS_NAME |-> Unset, SUBREDDIT_PUBLISH_NAMESPACE |-> Unset,
     SOURCE_DDB_TABLE |-> Unset, READ_SUBREDDITS_FROM_DDB |-> Unset,
     SUBREDDITS_TO_FOLLOW |-> Unset]

\* JavaScript truthiness of a value that is a string or undefined
Truthy(e) == e.set /\ Len(e.val) > 0

(* --------------------------- pure functions ---------------------------- *)

\* faulty variant of Split: empty tokens are dropped
SplitNoEmpty(s) ==
    LET RECURSIVE Go(_, _, _)
        Go(r, cur, acc) ==
            IF r = <<>> THEN (IF cur = <<>> THEN acc ELSE Append(acc, cur))
            ELSE IF Head(r) = "," THEN Go(Tail(r), <<>>, IF cur = <<>> THEN acc ELSE Append(acc, cur))
            ELSE Go(Tail(r), Append(cur, Head(r)), acc)
    IN  Go(s, <<>>, <<>>)

\* String.prototype.split(',') on a string given as a character sequence
RECURSIVE SplitAcc(_, _, _)
SplitAcc(s, cur, acc) ==
    IF s = <<>> THEN Append(acc, cur)
    ELSE IF Head(s) = "," THEN SplitAcc(Tail(s), <<>>, Append(acc, cur))
    ELSE SplitAcc(Tail(s), Append(cur, Head(s)), acc)

Split(s) == SplitAcc(s, <<>>, <<>>)

\* JSON.stringify({ name: subreddit, type: 'subreddit' }); the characters of
\* Chars need no escaping, the fixed parts are kept as single tokens
Stringify(subreddit) ==
    <<"{", "\"name\":", "\"">> \o subreddit \o <<"\"", ",", "\"type\":", "\"subreddit\"", "}">>

\* faulty variant of Entry: the bus name is stamped as the source
EntryWrongSource(e, subreddit) ==
    [EventBusName |-> e.EVENT_BUS_NAME.val,
     DetailType |-> "subreddit",
     Source |-> e.EVENT_BUS_NAME.val,
     Detail |-> Stringify(subreddit)]

\* the single entry of a putEvents request
Entry(e, subreddit) ==
    [EventBusName |-> e.EVENT_BUS_NAME.val,
     DetailType |-> "subreddit",
     Source |-> e.SUBREDDIT_PUBLISH_NAMESPACE.val,
     Detail |-> Stringify(subreddit)]

PutEventsRequest(e, subreddit) == [Entries |-> <<Entry(e, subreddit)>>]

(* ------------------------- external services --------------------------- *)

\* a table row: it carries the SUB_REDDIT attribute of type S, or it does not
Rows == {[SUB_REDDIT |-> [S |-> n]] : n \in Names} \cup {[ID |-> [S |-> <<"x">>]]}

RECURSIVE RowSeqs(_)
RowSeqs(n) ==
    IF n = 0 THEN {<<>>}
    ELSE LET shorter == RowSeqs(n - 1)
         IN  shorter \cup {Append(s, r) : s \in {t \in shorter : Len(t) = n - 1}, r \in Rows}

ScanResponses == {[Items |-> rs] : rs \in RowSeqs(MaxRows)}

ScanErrors == {"ResourceNotFoundException", "ProvisionedThroughputExceededException"}
PutErrors == {"ThrottlingException", "AccessDeniedException"}

\* one entry per request, so the service reports 0 or 1 failed entries
FailedEntryCounts == {0, 1}

HasSubReddit(item) == "SUB_REDDIT" \in DOMAIN item

\* faulty variant of MapItems: a value equal to its predecessor is dropped
MapItemsDedup(items) ==
    LET RECURSIVE Go(_, _)
        Go(i, acc) ==
            IF i > Len(items) THEN acc
            ELSE IF i > 1 /\ items[i].SUB_REDDIT.S = items[i - 1].SUB_REDDIT.S THEN Go(i + 1, acc)
            ELSE Go(i + 1, Append(acc, items[i].SUB_REDDIT.S))
    IN  Go(1, <<>>)

\* ddbResponse.Items.map((item) => item.SUB_REDDIT.S)
MapItems(items) == [i \in 1..Len(items) |-> items[i].SUB_REDDIT.S]

\* the map throws a TypeError when a row has no SUB_REDDIT attribute
MapThrows(items) == \E i \in 1..Len(items) : ~HasSubReddit(items[i])

(* ------------------------------ state ---------------------------------- *)

VARIABLES
    env,         \* process.env of the invocation
    pc,          \* position of the handler
    subreddits,  \* the identifier list handed to publishSubReddits
    idx,         \* number of loop iterations of publishSubReddits completed
    scanCalls,   \* the ddb.scan requests issued, in order
    scanResult,  \* outcome of the scan call
    putCalls,    \* the putEvents requests issued, in order
    putResults,  \* outcome of each putEvents call, in order
    errorLog,    \* console.error lines
    error        \* the error the invocation rejected with

\* the handler's variables
hvars == <<env, pc, subreddits, idx, scanCalls, scanResult, putCalls, putResults, errorLog, error>>

VARIABLES
    props,       \* the props handed to new S3ToEventBridgeToLambda
    cpc,         \* position of the constructor
    cerror,      \* the error the constructor threw
    created,     \* the resources created in the construct's scope, in order
    self,        \* the public fields of the construct (this.*)
    local,       \* the constructor's local variables
    effects      \* what was set on the resources in use

\* the construct's variables
cvars == <<props, cpc, cerror, created, self, local, effects>>

vars == <<hvars, cvars>>

NoError == "none"
ConfigError == "Some or all of environment variables not set"
NoSourceError == "Neither environment variable nor Dynamodb setup for subreddits to follow"
TypeError == "TypeError"

NoScan == [kind |-> "none"]

HandlerInit ==
    /\ env = NoEnvironment
    /\ pc = "notStarted"
    /\ subreddits = <<>>
    /\ idx = 0
    /\ scanCalls = <<>>
    /\ scanResult = NoScan
    /\ putCalls = <<>>
    /\ putResults = <<>>
    /\ errorLog = <<>>
    /\ error = NoError

(* ---------------------------- the handler ------------------------------ *)

\* faulty variant of EnvOk: the table name is not checked
EnvOkNoTable(e) ==
    /\ Truthy(e.EVENT_BUS_NAME)
    /\ Truthy(e.SUBREDDIT_PUBLISH_NAMESPACE)

\* the condition of checkEnvSetup: all three variables are truthy
EnvOk(e) ==
    /\ Truthy(e.EVENT_BUS_NAME)
    /\ Truthy(e.SUBREDDIT_PUBLISH_NAMESPACE)
    /\ Truthy(e.SOURCE_DDB_TABLE)

\* faulty variant of UseTable: the comparison ignores case
UseTableAnyCase(e) ==
    e.READ_SUBREDDITS_FROM_DDB.set /\ e.READ_SUBREDDITS_FROM_DDB.val \in {TRUE_, true_}

\* process.env.READ_SUBREDDITS_FROM_DDB == 'TRUE'
UseTable(e) == e.READ_SUBREDDITS_FROM_DDB.set /\ e.READ_SUBREDDITS_FROM_DDB.val = TRUE_

\* process.env.SUBREDDITS_TO_FOLLOW && process.env.SUBREDDITS_TO_FOLLOW.length > 0
HasStaticList(e) == Truthy(e.SUBREDDITS_TO_FOLLOW) /\ Len(e.SUBREDDITS_TO_FOLLOW.val) > 0

\* the invocation rejects with err; nothing runs after it
Abort(err) ==
    /\ pc' = "aborted"
    /\ error' = err

\* the run-time environment invokes handler under some process.env
Invoke ==
    /\ pc = "notStarted"
    /\ env' \in Environments
    /\ pc' = "validating"
    /\ UNCHANGED <<subreddits, idx, scanCalls, scanResult, putCalls, putResults, errorLog, error>>
    /\ UNCHANGED cvars

\* this.checkEnvSetup()
CheckEnvSetup ==
    /\ pc = "validating"
    /\ IF EnvOk(env)
         THEN pc' = "listing" /\ UNCHANGED error
         ELSE Abort(ConfigError)
    /\ UNCHANGED <<env, subreddits, idx, scanCalls, scanResult, putCalls, putResults, errorLog>>
    /\ UNCHANGED cvars

\* getSubRedditList up to its first await: issue the scan, or split the
\* static list, or throw
GetSubRedditList ==
    /\ pc = "listing"
    /\ IF UseTable(env)
         THEN /\ scanCalls' = Append(scanCalls, [TableName |-> env.SOURCE_DDB_TABLE.val])
              /\ pc' = "scanning"
              /\ UNCHANGED <<subreddits, error>>
         ELSE IF HasStaticList(env)
         THEN /\ subreddits' = Split(env.SUBREDDITS_TO_FOLLOW.val)
              /\ pc' = "publishing"
              /\ UNCHANGED <<scanCalls, error>>
         ELSE /\ Abort(NoSourceError)
              /\ UNCHANGED <<subreddits, scanCalls>>
    /\ UNCHANGED <<env, idx, scanResult, putCalls, putResults, errorLog>>
    /\ UNCHANGED cvars

\* ddb.scan(...).promise() resolves with resp; a row without SUB_REDDIT makes
\* the map throw inside the try, which is logged and thrown again
ScanReturn ==
    /\ pc = "scanning"
    /\ \E resp \in ScanResponses : scanResult' = [kind |-> "ok", Items |-> resp.Items]
    /\ IF MapThrows(scanResult'.Items)
         THEN /\ errorLog' = Append(errorLog, [what |-> "ddbError", err |-> TypeError])
              /\ Abort(TypeError)
              /\ UNCHANGED subreddits
         ELSE /\ subreddits' = MapItems(scanResult'.Items)
              /\ pc' = "publishing"
              /\ UNCHANGED <<errorLog, error>>
    /\ UNCHANGED <<env, idx, scanCalls, putCalls, putResults>>
    /\ UNCHANGED cvars

\* faulty variant of ScanRaise: the error is logged and the static list is
\* used instead
ScanRaiseFallback(err) ==
    /\ pc = "scanning"
    /\ scanResult' = [kind |-> "error", err |-> err]
    /\ errorLog' = Append(errorLog, [what |-> "ddbError", err |-> err])
    /\ subreddits' = Split(env.SUBREDDITS_TO_FOLLOW.val)
    /\ pc' = "publishing"
    /\ UNCHANGED <<env, idx, scanCalls, putCalls, putResults, error>>
    /\ UNCHANGED cvars

\* ddb.scan(...).promise() rejects with err: logged and thrown again
ScanRaise(err) ==
    /\ pc = "scanning"
    /\ scanResult' = [kind |-> "error", err |-> err]
    /\ errorLog' = Append(errorLog, [what |-> "ddbError", err |-> err])
    /\ Abort(err)
    /\ UNCHANGED <<env, subreddits, idx, scanCalls, putCalls, putResults>>
    /\ UNCHANGED cvars

\* faulty variant of PublishNext: the loop stops one item early
PublishNextShort ==
    /\ pc = "publishing"
    /\ IF idx + 1 < Len(subreddits)
         THEN /\ putCalls' = Append(putCalls, PutEventsRequest(env, subreddits[idx + 1]))
              /\ pc' = "putting"
         ELSE /\ pc' = "done"
              /\ UNCHANGED putCalls
    /\ UNCHANGED <<env, subreddits, idx, scanCalls, scanResult, putResults, errorLog, error>>
    /\ UNCHANGED cvars

\* the head of the for-of loop: issue putEvents for the next subreddit, or
\* leave the loop and resolve
PublishNext ==
    /\ pc = "publishing"
    /\ IF idx < Len(subreddits)
         THEN /\ putCalls' = Append(putCalls, PutEventsRequest(env, subreddits[idx + 1]))
              /\ pc' = "putting"
         ELSE /\ pc' = "done"
              /\ UNCHANGED putCalls
    /\ UNCHANGED <<env, subreddits, idx, scanCalls, scanResult, putResults, errorLog, error>>
    /\ UNCHANGED cvars

\* faulty variant of PutEventsReturn: a rejected entry is thrown as an error
PutEventsReturnThrow(n) ==
    /\ pc = "putting"
    /\ putResults' = Append(putResults, [kind |-> "ok", FailedEntryCount |-> n])
    /\ IF n > 0
         THEN /\ errorLog' = Append(errorLog, [what |-> "failedToPublish", subreddit |-> subreddits[idx + 1]])
              /\ Abort("FailedEntry")
              /\ UNCHANGED idx
         ELSE /\ idx' = idx + 1
              /\ pc' = "publishing"
              /\ UNCHANGED <<errorLog, error>>
    /\ UNCHANGED <<env, subreddits, scanCalls, scanResult, putCalls>>
    /\ UNCHANGED cvars

\* faulty variant of PutEventsReturn: a rejected entry is published again
PutEventsReturnRetry(n) ==
    /\ pc = "putting"
    /\ putResults' = Append(putResults, [kind |-> "ok", FailedEntryCount |-> n])
    /\ errorLog' = IF n > 0
                     THEN Append(errorLog, [what |-> "failedToPublish", subreddit |-> subreddits[idx + 1]])
                     ELSE errorLog
    /\ idx' = IF n > 0 /\ Len(putCalls) <= Len(subreddits) THEN idx ELSE idx + 1
    /\ pc' = "publishing"
    /\ UNCHANGED <<env, subreddits, scanCalls, scanResult, putCalls, error>>
    /\ UNCHANGED cvars

\* putEvents resolves with FailedEntryCount = n: a rejected entry is logged
\* and the loop goes on
PutEventsReturn(n) ==
    /\ pc = "putting"
    /\ putResults' = Append(putResults, [kind |-> "ok", FailedEntryCount |-> n])
    /\ errorLog' = IF n > 0
                     THEN Append(errorLog, [what |-> "failedToPublish", subreddit |-> subreddits[idx + 1]])
                     ELSE errorLog
    /\ idx' = idx + 1
    /\ pc' = "publishing"
    /\ UNCHANGED <<env, subreddits, scanCalls, scanResult, putCalls, error>>
    /\ UNCHANGED cvars

\* faulty variant of PutEventsRaise: the error is logged and the loop goes on
PutEventsRaiseSwallow(err) ==
    /\ pc = "putting"
    /\ putResults' = Append(putResults, [kind |-> "error", err |-> err])
    /\ errorLog' = Append(errorLog, [what |-> "putError", err |-> err])
    /\ idx' = idx + 1
    /\ pc' = "publishing"
    /\ UNCHANGED <<env, subreddits, scanCalls, scanResult, putCalls, error>>
    /\ UNCHANGED cvars

\* putEvents rejects with err: logged and thrown again
PutEventsRaise(err) ==
    /\ pc = "putting"
    /\ putResults' = Append(putResults, [kind |-> "error", err |-> err])
    /\ errorLog' = Append(errorLog, [what |-> "putError", err |-> err])
    /\ Abort(err)
    /\ UNCHANGED <<env, subreddits, idx, scanCalls, scanResult, putCalls>>
    /\ UNCHANGED cvars

(* --------------------- S3ToEventBridgeToLambda ------------------------- *)

Undefined == "undefined"

\* an optional props member holding a structured value
None == [given |-> FALSE]
Some(v) == [given |-> TRUE, value |-> v]

\* retryAttempts of the rule's target
RetryAttempts == 10
\* maxEventAge of the rule's target, in days
MaxEventAgeDays == 1

\* the rule properties used when props.eventRuleProps is not given
DefaultEventRuleProps ==
    [eventPattern |-> [source |-> <<"aws.s3">>, detailType |-> <<"Object Created">>]]

\* some rule properties a caller supplies
CustomEventRuleProps ==
    [eventPattern |-> [source |-> <<"aws.s3">>, detailType |-> <<"Object Deleted">>]]

\* the props values enumerated. An existing bucket is an s3.IBucket: one
\* defined in the app (its node has a CfnBucket default child) or one imported
\* by name or ARN (its node has no default child)
AllProps ==
    [existingBucketObj : {Undefined, "OwnedBucket", "ImportedBucket"},
     bucketProps : {Undefined, "BucketProps"},
     existingLambdaObj : {Undefined, "ExistingFunction"},
     lambdaFunctionProps : {Undefined, "FunctionProps"},
     eventRuleProps : {None, Some(CustomEventRuleProps)},
     s3LoggingBucket : {Undefined, "GivenLoggingBucket"}]

NoProps ==
    [existingBucketObj |-> Undefined, bucketProps |-> Undefined,
     existingLambdaObj |-> Undefined, lambdaFunctionProps |-> Undefined,
     eventRuleProps |-> None, s3LoggingBucket |-> Undefined]

NoFields ==
    [s3Bucket |-> Undefined, s3LoggingBucket |-> Undefined,
     lambdaFunction |-> Undefined, eventsRule |-> Undefined]

NoLocals ==
    [bucket |-> Undefined, eventRuleProps |-> None, dlq |-> Undefined,
     lambdaFunc |-> Undefined, rule |-> Undefined]

NoEffects ==
    [eventBridgeEnabled |-> {}, targets |-> <<>>, permissions |-> <<>>, readGrants |-> {}]

ConstructInit ==
    /\ props = NoProps
    /\ cpc = "notConstructed"
    /\ cerror = NoError
    /\ created = <<>>
    /\ self = NoFields
    /\ local = NoLocals
    /\ effects = NoEffects

CheckPropsError == "Error - Either provide the existing object or its props, but not both"
LambdaRequiredError == "Either existingLambdaObj or lambdaFunctionProps is required"

\* defaults.CheckProps(props): the documented contract of the props
\* interface, an error when a resource is given both as an existing object
\* and as creation props
CheckPropsThrows(p) ==
    \/ p.existingBucketObj # Undefined /\ p.bucketProps # Undefined
    \/ p.existingLambdaObj # Undefined /\ p.lambdaFunctionProps # Undefined

\* the constructor throws err; none of its later statements runs
Throw(err) ==
    /\ cpc' = "failed"
    /\ cerror' = err

\* new S3ToEventBridgeToLambda(scope, id, props): super(scope, id)
New ==
    /\ cpc = "notConstructed"
    /\ props' \in AllProps
    /\ cpc' = "checkProps"
    /\ UNCHANGED <<cerror, created, self, local, effects>>
    /\ UNCHANGED hvars

\* faulty variant of CallCheckProps: the props are not checked
CallCheckPropsSkipped ==
    /\ cpc = "checkProps"
    /\ cpc' = "bucket"
    /\ UNCHANGED <<props, cerror, created, self, local, effects>>
    /\ UNCHANGED hvars

\* defaults.CheckProps(props), the constructor's first statement
CallCheckProps ==
    /\ cpc = "checkProps"
    /\ IF CheckPropsThrows(props)
         THEN Throw(CheckPropsError)
         ELSE cpc' = "bucket" /\ UNCHANGED cerror
    /\ UNCHANGED <<props, created, self, local, effects>>
    /\ UNCHANGED hvars

\* the bucket in use: built by defaults.buildS3Bucket unless an existing one
\* is given. buildS3Bucket returns the bucket and, as it chooses, a logging
\* bucket it created
BuildBucket ==
    /\ cpc = "bucket"
    /\ IF props.existingBucketObj = Undefined
         THEN \E logging \in {Undefined, "CreatedLoggingBucket"} :
                /\ created' = created \o (IF logging = Undefined THEN <<>> ELSE <<"LoggingBucket">>) \o <<"Bucket">>
                /\ self' = [self EXCEPT !.s3Bucket = "CreatedBucket", !.s3LoggingBucket = logging]
                /\ local' = [local EXCEPT !.bucket = "CreatedBucket"]
         ELSE /\ local' = [local EXCEPT !.bucket = props.existingBucketObj]
              /\ UNCHANGED <<created, self>>
    /\ cpc' = "notification"
    /\ UNCHANGED <<props, cerror, effects>>
    /\ UNCHANGED hvars

\* (bucket.node.defaultChild as s3.CfnBucket).notificationConfiguration = ...:
\* an imported bucket has no default child, and the assignment throws
EnableEventBridge ==
    /\ cpc = "notification"
    /\ IF local.bucket = "ImportedBucket"
         THEN /\ Throw(TypeError)
              /\ UNCHANGED effects
         ELSE /\ effects' = [effects EXCEPT !.eventBridgeEnabled = @ \cup {local.bucket}]
              /\ cpc' = "ruleProps"
              /\ UNCHANGED cerror
    /\ UNCHANGED <<props, created, self, local>>
    /\ UNCHANGED hvars

\* faulty variant of ChooseRuleProps: props.eventRuleProps is ignored
ChooseRulePropsDefaultOnly ==
    /\ cpc = "ruleProps"
    /\ self' = IF props.s3LoggingBucket # Undefined
                 THEN [self EXCEPT !.s3LoggingBucket = props.s3LoggingBucket]
                 ELSE self
    /\ local' = [local EXCEPT !.eventRuleProps = Some(DefaultEventRuleProps)]
    /\ cpc' = "dlq"
    /\ UNCHANGED <<props, cerror, created, effects>>
    /\ UNCHANGED hvars

\* this.s3LoggingBucket and _eventRuleProps
ChooseRuleProps ==
    /\ cpc = "ruleProps"
    /\ self' = IF props.s3LoggingBucket # Undefined
                 THEN [self EXCEPT !.s3LoggingBucket = props.s3LoggingBucket]
                 ELSE self
    /\ local' = [local EXCEPT !.eventRuleProps =
                    IF props.eventRuleProps.given
                    THEN props.eventRuleProps
                    ELSE Some(DefaultEventRuleProps)]
    /\ cpc' = "dlq"
    /\ UNCHANGED <<props, cerror, created, effects>>
    /\ UNCHANGED hvars

\* new sqs.Queue(this, 'DLQ', ...)
CreateDLQ ==
    /\ cpc = "dlq"
    /\ created' = Append(created, "DLQ")
    /\ local' = [local EXCEPT !.dlq = "DLQ"]
    /\ cpc' = "function"
    /\ UNCHANGED <<props, cerror, self, effects>>
    /\ UNCHANGED hvars

\* defaults.buildLambdaFunction(this, {existingLambdaObj, lambdaFunctionProps}):
\* the existing function when given, else one created from the props; with
\* neither there is nothing to build from and it throws
BuildLambdaFunction ==
    /\ cpc = "function"
    /\ IF props.existingLambdaObj # Undefined
         THEN /\ local' = [local EXCEPT !.lambdaFunc = props.existingLambdaObj]
              /\ cpc' = "rule"
              /\ UNCHANGED <<created, cerror>>
         ELSE IF props.lambdaFunctionProps # Undefined
         THEN /\ local' = [local EXCEPT !.lambdaFunc = "CreatedFunction"]
              /\ created' = Append(created, "Function")
              /\ cpc' = "rule"
              /\ UNCHANGED cerror
         ELSE /\ Throw(LambdaRequiredError)
              /\ UNCHANGED <<local, created>>
    /\ UNCHANGED <<props, self, effects>>
    /\ UNCHANGED hvars

\* new events.Rule(this, 'S3NotificatonRule', _eventRuleProps) and
\* _rule.addTarget(new targets.LambdaFunction(...))
CreateRule ==
    /\ cpc = "rule"
    /\ created' = Append(created, "Rule")
    /\ local' = [local EXCEPT !.rule = [id |-> "S3NotificatonRule", props |-> local.eventRuleProps.value]]
    /\ effects' = [effects EXCEPT !.targets = Append(@,
                      [rule |-> "S3NotificatonRule",
                       target |-> local.lambdaFunc,
                       deadLetterQueue |-> local.dlq,
                       maxEventAgeDays |-> MaxEventAgeDays,
                       retryAttempts |-> RetryAttempts])]
    /\ cpc' = "permission"
    /\ UNCHANGED <<props, cerror, self>>
    /\ UNCHANGED hvars

\* _lambdaFunc.addPermission('EventBusInvokeLambda', ...)
AddPermission ==
    /\ cpc = "permission"
    /\ created' = Append(created, "Permission")
    /\ effects' = [effects EXCEPT !.permissions = Append(@,
                      [function |-> local.lambdaFunc,
                       principal |-> "events.amazonaws.com",
                       action |-> "lambda:InvokeFunction",
                       sourceArn |-> local.rule.id])]
    /\ cpc' = "grant"
    /\ UNCHANGED <<props, cerror, self, local>>
    /\ UNCHANGED hvars

\* bucket.grantRead(_lambdaFunc.role!) and the assignments of this.eventsRule
\* and this.lambdaFunction
GrantReadAndAssign ==
    /\ cpc = "grant"
    /\ effects' = [effects EXCEPT !.readGrants = @ \cup {<<local.bucket, local.lambdaFunc>>}]
    /\ self' = [self EXCEPT !.eventsRule = local.rule.id, !.lambdaFunction = local.lambdaFunc]
    /\ cpc' = "constructed"
    /\ UNCHANGED <<props, cerror, created, local>>
    /\ UNCHANGED hvars

Init == HandlerInit /\ ConstructInit

Next ==
    \/ Invoke
    \/ CheckEnvSetup
    \/ GetSubRedditList
    \/ ScanReturn
    \/ \E err \in ScanErrors : ScanRaise(err)
    \/ PublishNext
    \/ \E n \in FailedEntryCounts : PutEventsReturn(n)
    \/ \E err \in PutErrors : PutEventsRaise(err)

Spec == Init /\ [][Next]_vars

\* every step of the handler is taken once it is possible: the function runs
\* to its end and each awaited call settles
FairSpec == Spec /\ WF_vars(Next)

\* the steps of the constructor
ConstructNext ==
    \/ New
    \/ CallCheckProps
    \/ BuildBucket
    \/ EnableEventBridge
    \/ ChooseRuleProps
    \/ CreateDLQ
    \/ BuildLambdaFunction
    \/ CreateRule
    \/ AddPermission
    \/ GrantReadAndAssign

ConstructSpec == Init /\ [][ConstructNext]_vars

(* --------------------------- vocabulary -------------------------------- *)

\* an environment variable that is absent or the empty string
Missing(e) == ~e.set \/ e.val = <<>>

\* one of the three required variables is absent or empty
RequiredMissing ==
    \/ Missing(env.EVENT_BUS_NAME)
    \/ Missing(env.SUBREDDIT_PUBLISH_NAMESPACE)
    \/ Missing(env.SOURCE_DDB_TABLE)

\* the table-source switch is on
SwitchOn == env.READ_SUBREDDITS_FROM_DDB = Str(TRUE_)

\* the invocation has been started
Invoked == pc # "notStarted"

\* getSubRedditList has returned a list: publishSubReddits runs or has run
ListReturned == pc \in {"publishing", "putting", "done"} \/ putCalls # <<>>

\* the number of identifiers, N
N == Len(subreddits)

\* JSON.parse of a Detail text: it is an object with exactly the members name
\* and type, in that order
IsDetail(d) ==
    /\ Len(d) >= 8
    /\ SubSeq(d, 1, 3) = <<"{", "\"name\":", "\"">>
    /\ SubSeq(d, Len(d) - 4, Len(d)) = <<"\"", ",", "\"type\":", "\"subreddit\"", "}">>
    /\ \A i \in 4..(Len(d) - 5) : d[i] \in Chars \cup {"c"}
DetailName(d) == SubSeq(d, 4, Len(d) - 5)

\* the i-th putEvents call carries one entry, for the i-th identifier
CallIsFor(i) ==
    /\ Len(putCalls[i].Entries) = 1
    /\ IsDetail(putCalls[i].Entries[1].Detail)
    /\ DetailName(putCalls[i].Entries[1].Detail) = subreddits[i]

\* the k-th putEvents call raised
Raised(k) == k <= Len(putResults) /\ putResults[k].kind = "error"
\* the k-th putEvents call returned with a rejected entry
Rejected(k) == k <= Len(putResults) /\ putResults[k].kind = "ok" /\ putResults[k].FailedEntryCount > 0
NoPutRaised == \A k \in 1..Len(putResults) : putResults[k].kind = "ok"

(* ------------------------------ claims --------------------------------- *)

\* C1: when EVENT_BUS_NAME, SUBREDDIT_PUBLISH_NAMESPACE or SOURCE_DDB_TABLE is
\* absent or empty, whatever the switch and the static list are, the
\* invocation cannot get past validation: it ends aborted with the
\* configuration error, and no scan call and no putEvents call is ever issued.
C1_MissingConfigFailsBeforeIO ==
    (Invoked /\ RequiredMissing) =>
        /\ pc \in {"validating", "aborted"}
        /\ pc = "aborted" => error = ConfigError
        /\ pc = "validating" => error = NoError
        /\ scanCalls = <<>>
        /\ putCalls = <<>>

\* C1 witness: only the table name is empty, the switch is on, a static list
\* is configured, and the invocation has ended
C1_Witness ==
    /\ pc = "aborted"
    /\ env.SOURCE_DDB_TABLE = Str(<<>>)
    /\ ~Missing(env.EVENT_BUS_NAME) /\ ~Missing(env.SUBREDDIT_PUBLISH_NAMESPACE)
    /\ SwitchOn
    /\ ~Missing(env.SUBREDDITS_TO_FOLLOW)

\* C2: if the putEvents call for item k raises, then exactly the calls for
\* items 1..k have been issued, in list order, none for k+1..N, and the
\* invocation has ended aborted with that very error.
C2_RaiseStopsAtK ==
    \A k \in 1..Len(putResults) :
        Raised(k) =>
            /\ k <= N
            /\ Len(putCalls) = k
            /\ Len(putResults) = k
            /\ \A i \in 1..k : CallIsFor(i)
            /\ \A i \in 1..(k - 1) : ~Raised(i)
            /\ pc = "aborted"
            /\ error = putResults[k].err

\* C2 witness: the second of three calls raised
C2_Witness ==
    /\ N = 3
    /\ Raised(2)
    /\ pc = "aborted"
    /\ subreddits[1] # subreddits[2]

\* C3 (state part): as long as no putEvents call raises, the invocation is not
\* aborted by publishing, whatever entries were rejected, and once it is done
\* all N calls have been issued and answered.
C3_RejectionsInv ==
    (ListReturned /\ NoPutRaised) =>
        /\ pc # "aborted"
        /\ pc = "done" => (Len(putCalls) = N /\ Len(putResults) = N)
        /\ Len(putCalls) <= N

\* C3: a rejected entry (FailedEntryCount > 0) neither stops nor shortens the
\* loop: unless a call raises, all N calls are issued and the invocation ends
\* in success.
C3_RejectionsDoNotStop ==
    /\ []C3_RejectionsInv
    /\ (ListReturned /\ \E k \in 1..Len(putResults) : Rejected(k))
            ~> (~NoPutRaised \/ (pc = "done" /\ Len(putCalls) = N))

\* C3 witness: the first of several entries was rejected and the invocation
\* ended in success
C3_Witness ==
    /\ pc = "done"
    /\ N >= 2
    /\ Rejected(1)
    /\ Len(putCalls) = N

\* C4: with a bus that accepts every call, the calls issued so far are one
\* per identifier, in list order, each with exactly one entry: the configured
\* bus, detail type 'subreddit', the configured namespace as source, and the
\* payload {name: identifier, type: 'subreddit'}; at the end there are N.
C4_OneEventPerIdentifier ==
    (ListReturned /\ \A k \in 1..Len(putResults) : putResults[k] = [kind |-> "ok", FailedEntryCount |-> 0]) =>
        /\ Len(putCalls) <= N
        /\ pc = "done" => Len(putCalls) = N
        /\ \A i \in 1..Len(putCalls) :
            /\ CallIsFor(i)
            /\ putCalls[i].Entries[1].EventBusName = env.EVENT_BUS_NAME.val
            /\ putCalls[i].Entries[1].Source = env.SUBREDDIT_PUBLISH_NAMESPACE.val
            /\ putCalls[i].Entries[1].DetailType = "subreddit"
            /\ DOMAIN putCalls[i].Entries[1] = {"EventBusName", "DetailType", "Source", "Detail"}
        /\ pc = "done" => [i \in 1..N |-> DetailName(putCalls[i].Entries[1].Detail)] = subreddits

\* C4 witness: three identifiers, one of them twice, all accepted
C4_Witness ==
    /\ pc = "done"
    /\ N = 3
    /\ subreddits[1] = subreddits[3]
    /\ subreddits[1] # subreddits[2]
    /\ \A k \in 1..Len(putResults) : putResults[k] = [kind |-> "ok", FailedEntryCount |-> 0]

\* C5: when the switch is on and the scan call fails, the invocation ends
\* aborted with the scan's error and no putEvents call is issued.
C5_ScanFailureIsFatal ==
    scanResult.kind = "error" =>
        /\ SwitchOn
        /\ pc = "aborted"
        /\ error = scanResult.err
        /\ putCalls = <<>>
        /\ subreddits = <<>>

\* C5 witness: the scan failed although a static list was configured
C5_Witness ==
    /\ scanResult.kind = "error"
    /\ ~Missing(env.SUBREDDITS_TO_FOLLOW)
    /\ pc = "aborted"

\* the characters of a string up to, not including, the first comma
RECURSIVE FirstToken(_)
FirstToken(s) ==
    IF s = <<>> \/ Head(s) = "," THEN <<>> ELSE <<Head(s)>> \o FirstToken(Tail(s))

\* the tokens put together again, with a comma between neighbours
RECURSIVE Join(_)
Join(tokens) ==
    IF Len(tokens) = 0 THEN <<>>
    ELSE IF Len(tokens) = 1 THEN tokens[1]
    ELSE tokens[1] \o <<",">> \o Join(Tail(tokens))

Commas(s) == Cardinality({i \in 1..Len(s) : s[i] = ","})

\* C6: when the switch is on and the scan succeeds, the list getSubRedditList
\* returns is the SUB_REDDIT values of the scanned rows, row by row: same
\* length, same order, duplicates kept.
C6_ListIsProjectionOfRows ==
    (scanResult.kind = "ok" /\ ListReturned) =>
        /\ SwitchOn
        /\ N = Len(scanResult.Items)
        /\ \A i \in 1..N : subreddits[i] = scanResult.Items[i].SUB_REDDIT.S

\* C6 witness: two rows holding the same identifier
C6_Witness ==
    /\ scanResult.kind = "ok"
    /\ ListReturned
    /\ Len(scanResult.Items) = 2
    /\ scanResult.Items[1] = scanResult.Items[2]

\* C7: with the switch off, a non-empty static list yields its
\* comma-separated tokens in order ("a,b,c" gives a, b, c; no comma gives one
\* token); an empty or absent static list ends the invocation with a
\* configuration error, and no scan or putEvents call is issued.
C7_StaticList ==
    (Invoked /\ ~SwitchOn) =>
        /\ scanCalls = <<>>
        /\ IF Missing(env.SUBREDDITS_TO_FOLLOW)
             THEN /\ pc \in {"validating", "listing", "aborted"}
                  /\ pc = "aborted" => error \in {ConfigError, NoSourceError}
                  /\ (pc = "aborted" /\ ~RequiredMissing) => error = NoSourceError
                  /\ putCalls = <<>>
             ELSE ListReturned =>
                  LET s == env.SUBREDDITS_TO_FOLLOW.val
                  IN  /\ N = Commas(s) + 1
                      /\ \A i \in 1..N : Commas(subreddits[i]) = 0
                      /\ Join(subreddits) = s
                      /\ subreddits[1] = FirstToken(s)
                      /\ s = ExampleList => subreddits = <<<<"a">>, <<"b">>, <<"c">>>>
                      /\ Commas(s) = 0 => subreddits = <<s>>

\* C7 witness: the static list "a,b,c" was split
C7_Witness ==
    /\ ~SwitchOn
    /\ env.SUBREDDITS_TO_FOLLOW = Str(ExampleList)
    /\ ListReturned

\* C8: nothing is retried: the scan is issued at most once, the putEvents
\* calls never outnumber the identifiers, every call but the one in flight
\* has one answer, and an answer that raised or rejected is followed by no
\* second call for the same position.
C8_NoRetry ==
    /\ Len(scanCalls) <= 1
    /\ ~SwitchOn => scanCalls = <<>>
    /\ Len(putCalls) <= N
    /\ Len(putCalls) = Len(putResults) + (IF pc = "putting" THEN 1 ELSE 0)
    /\ \A i \in 1..Len(putCalls) : CallIsFor(i)
    /\ \A k \in 1..Len(putResults) : Raised(k) => Len(putCalls) = k
    /\ pc \in {"publishing", "putting", "done"} => idx = Len(putResults)

\* C8 witness: the last entry was rejected and the invocation ended with N
\* calls made
C8_Witness ==
    /\ pc = "done"
    /\ N >= 2
    /\ Rejected(N)
    /\ Len(putCalls) = N

\* the phases of an invocation; waiting for the scan belongs to listing,
\* waiting for putEvents to publishing
Phase(p) ==
    CASE p = "scanning" -> "listing"
      [] p = "putting" -> "publishing"
      [] OTHER -> p

Terminal == pc \in {"done", "aborted"}

\* the identifier source delivers a list
SourceOk ==
    IF SwitchOn
    THEN scanResult.kind = "ok" /\ \A i \in 1..Len(scanResult.Items) : "SUB_REDDIT" \in DOMAIN scanResult.Items[i]
    ELSE ~Missing(env.SUBREDDITS_TO_FOLLOW)

\* an error of one of the three fatal kinds has happened
FatalErrorSeen ==
    \/ Invoked /\ pc # "validating" /\ RequiredMissing
    \/ scanResult.kind = "error"
    \/ scanResult.kind = "ok" /\ ~SourceOk
    \/ ~SwitchOn /\ ~SourceOk /\ Phase(pc) \notin {"notStarted", "validating", "listing"}
    \/ ~NoPutRaised

\* C9 (state part): done exactly when validation passed, the list was
\* obtained and no putEvents call raised, and then all N calls were issued;
\* aborted as soon as a fatal error has happened.
C9_Outcome ==
    /\ pc = "done" =>
        /\ ~RequiredMissing /\ SourceOk /\ NoPutRaised
        /\ Len(putCalls) = N
        /\ error = NoError
    /\ pc = "aborted" =>
        /\ RequiredMissing \/ ~SourceOk \/ ~NoPutRaised
        /\ error # NoError
    /\ FatalErrorSeen => pc = "aborted"
    /\ pc # "aborted" => error = NoError

\* C9 (step part): the phases are passed in order and nothing happens after
\* a terminal state
C9_Order ==
    /\ ~Terminal
    /\ <<Phase(pc), Phase(pc')>> \in
        {<<"notStarted", "validating">>,
         <<"validating", "listing">>, <<"validating", "aborted">>,
         <<"listing", "listing">>, <<"listing", "publishing">>, <<"listing", "aborted">>,
         <<"publishing", "publishing">>, <<"publishing", "done">>, <<"publishing", "aborted">>}

\* C9: every invocation, its external calls settling, ends in exactly one of
\* done and aborted, through validating, listing and publishing in that
\* order; done if and only if validation passed, the list was obtained and no
\* putEvents call raised, with N calls issued; aborted at the first fatal
\* error, with no call after it.
C9_Lifecycle ==
    /\ []C9_Outcome
    /\ [][C9_Order]_vars
    /\ Invoked ~> Terminal

\* C9 witness: a table-sourced invocation that published two identifiers,
\* one of them rejected, and ended done
C9_Witness ==
    /\ pc = "done"
    /\ SwitchOn
    /\ N = 2
    /\ Rejected(2)

\* a resource is given both as an existing object and as creation props
BothGiven ==
    \/ props.existingBucketObj # Undefined /\ props.bucketProps # Undefined
    \/ props.existingLambdaObj # Undefined /\ props.lambdaFunctionProps # Undefined

\* C10: with both existingBucketObj and bucketProps, or both
\* existingLambdaObj and lambdaFunctionProps, construction ends in an error
\* before anything is created or set; with at most one of each pair, the
\* props check lets construction go on.
C10_ExclusiveProps ==
    cpc \notin {"notConstructed", "checkProps"} =>
        IF BothGiven
        THEN /\ cpc = "failed"
             /\ cerror = CheckPropsError
             /\ created = <<>>
             /\ self = NoFields
             /\ effects = NoEffects
        ELSE cerror # CheckPropsError

\* C10 witness: an existing function is given together with function props,
\* the bucket pair is fine, and construction has failed
C10_Witness ==
    /\ cpc = "failed"
    /\ props.existingLambdaObj # Undefined /\ props.lambdaFunctionProps # Undefined
    /\ props.existingBucketObj = Undefined /\ props.bucketProps # Undefined

\* C10 witness of the other case: one of each pair is given and construction
\* completed
C10_WitnessAccepted ==
    /\ cpc = "constructed"
    /\ props.existingBucketObj # Undefined
    /\ props.lambdaFunctionProps # Undefined

\* how many resources of a kind the constructor created
Count(kind) == Cardinality({i \in 1..Len(created) : created[i] = kind})

\* the bucket and the function the construct is to use, read off the props
BucketInUse ==
    IF props.existingBucketObj # Undefined THEN props.existingBucketObj ELSE "CreatedBucket"
FunctionInUse ==
    IF props.existingLambdaObj # Undefined THEN props.existingLambdaObj ELSE "CreatedFunction"

\* props the constructor can complete on: the props check passes, the bucket
\* is created or one defined in the app, and a function or its props is given
Accepted ==
    /\ ~BothGiven
    /\ props.existingBucketObj # "ImportedBucket"
    /\ props.existingLambdaObj # Undefined \/ props.lambdaFunctionProps # Undefined

C11_WitnessCreated ==
    /\ cpc = "constructed"
    /\ props.existingBucketObj = Undefined
    /\ props.existingLambdaObj = Undefined
    /\ ~props.eventRuleProps.given

\* t is one of the comma-separated tokens of s: a stretch of s without a
\* comma, bounded on each side by a comma or an end of s
IsTokenOf(t, s) ==
    \E a \in 1..(Len(s) + 1) : \E b \in (a - 1)..Len(s) :
        /\ SubSeq(s, a, b) = t
        /\ \A i \in a..b : s[i] # ","
        /\ a = 1 \/ s[a - 1] = ","
        /\ b = Len(s) \/ s[b + 1] = ","

\* the name the i-th putEvents call published
PublishedName(i) == DetailName(putCalls[i].Entries[1].Detail)

\* C12: one identifier source per invocation and no fallback. With
\* READ_SUBREDDITS_FROM_DDB equal to 'TRUE' every published name is the
\* SUB_REDDIT value of the scanned row of the same position, whatever the
\* static list holds; a failed scan publishes nothing and aborts, a scan with
\* zero rows publishes nothing and does not abort. With any other value, or
\* none, no scan call is ever issued and every published name is a token of
\* the static list.
C12_OneSourceNoFallback ==
    Invoked =>
        IF env.READ_SUBREDDITS_FROM_DDB.set /\ env.READ_SUBREDDITS_FROM_DDB.val = <<"T", "R", "U", "E">>
        THEN /\ putCalls # <<>> => scanResult.kind = "ok"
             /\ scanResult.kind = "error" => (pc = "aborted" /\ putCalls = <<>> /\ subreddits = <<>>)
             /\ scanResult.kind = "ok" =>
                  /\ Len(putCalls) <= Len(scanResult.Items)
                  /\ \A i \in 1..Len(putCalls) :
                        /\ "SUB_REDDIT" \in DOMAIN scanResult.Items[i]
                        /\ PublishedName(i) = scanResult.Items[i].SUB_REDDIT.S
                  /\ scanResult.Items = <<>> =>
                        (pc \in {"publishing", "done"} /\ putCalls = <<>> /\ error = NoError)
             /\ ListReturned => (Len(scanCalls) = 1 /\ scanResult.kind = "ok")
        ELSE /\ scanCalls = <<>>
             /\ scanResult = NoScan
             /\ pc # "scanning"
             /\ putCalls # <<>> => env.SUBREDDITS_TO_FOLLOW.set
             /\ \A i \in 1..Len(putCalls) : IsTokenOf(PublishedName(i), env.SUBREDDITS_TO_FOLLOW.val)

\* C12 witness: the switch is on, a static list is configured, the scan
\* returned zero rows and the invocation ended in success without a call
C12_Witness ==
    /\ SwitchOn
    /\ ~Missing(env.SUBREDDITS_TO_FOLLOW)
    /\ scanResult = [kind |-> "ok", Items |-> <<>>]
    /\ pc = "done"
    /\ putCalls = <<>>

\* C12 witness of the other case: the switch holds 'true', which is not
\* 'TRUE', and the tokens of the static list were published
C12_WitnessStatic ==
    /\ env.READ_SUBREDDITS_FROM_DDB = Str(true_)
    /\ pc = "done"
    /\ Len(putCalls) = 2
    /\ scanCalls = <<>>

====
